---------------------------- MODULE Spec2Model ----------------------------
(***************************************************************************)
(* SQL_helper_bot (main1.py): the text-to-SQL pipeline                     *)
(*   is_valid_name  ->  parse_table_line  ->  generate_sql                 *)
(*                                                                         *)
(* A Python str is modelled as a sequence of one-character strings, so     *)
(* that strip, split, index, upper, re.match and the f-strings are         *)
(* computed character by character.  A Cyrillic letter of the fixed        *)
(* messages is one element written by its code point, "U+041E".            *)
(***************************************************************************)
EXTENDS Integers, Sequences, FiniteSets, TLC

VARIABLES
    pc,       \* position of the call: see PcValues
    query,    \* generate_sql: the argument
    lines,    \* generate_sql: lines (line 58)
    tables,   \* generate_sql: tables (line 62), the descriptors appended so far
    out,      \* generate_sql: the returned str (None until it returns)
    name,     \* is_valid_name: the argument
    valid     \* is_valid_name: the returned bool

vars == <<pc, query, lines, tables, out, name, valid>>

(***************************************************************************)
(* Bounds of the explored inputs.                                          *)
(***************************************************************************)
MaxLines == 3      \* lines of a query
MaxNameLen == 3    \* characters of a name handed to is_valid_name

(***************************************************************************)
(* Characters.                                                             *)
(***************************************************************************)
Lower == <<"a", "b", "c", "d", "e", "f", "g", "h", "i", "j", "k", "l", "m",
           "n", "o", "p", "q", "r", "s", "t", "u", "v", "w", "x", "y", "z">>
Upper == <<"A", "B", "C", "D", "E", "F", "G", "H", "I", "J", "K", "L", "M",
           "N", "O", "P", "Q", "R", "S", "T", "U", "V", "W", "X", "Y", "Z">>
Letter == {Lower[i] : i \in 1..26} \cup {Upper[i] : i \in 1..26}
Digit == {"0", "1", "2", "3", "4", "5", "6", "7", "8", "9"}

\* the ASCII characters for which str.isspace() holds and TLA+ has an escape
Whitespace == {" ", "\t", "\n", "\r", "\f"}

\* Python's None; no str equals it, since every element of a str is one character
None == <<"None">>

\* the outcome of an out-of-range subscript
IndexError == <<"IndexError">>

Min(S) == CHOOSE x \in S : \A y \in S : x <= y
Max(S) == CHOOSE x \in S : \A y \in S : x >= y

\* truth value of a str, a list or None
Truthy(v) == v # None /\ v # <<>>

(***************************************************************************)
(* The str and list methods the program calls.                             *)
(***************************************************************************)
\* str.strip()
str_strip(s) ==
    LET keep == {i \in 1..Len(s) : s[i] \notin Whitespace}
    IN  IF keep = {} THEN <<>> ELSE SubSeq(s, Min(keep), Max(keep))

\* str.split(sep): cut at every occurrence of sep, leftmost first; empty pieces kept
RECURSIVE str_split(_, _)
\* str_split as str.split() without a separator behaves on an empty rest: no piece
str_split_skip_empty(s, sep) ==
    LET n == Len(sep)
        hits == {i \in 1..(Len(s) - n + 1) : SubSeq(s, i, i + n - 1) = sep}
    IN  IF s = <<>> THEN <<>>
        ELSE IF hits = {} THEN <<s>>
        ELSE LET i == Min(hits)
             IN  <<SubSeq(s, 1, i - 1)>> \o str_split(SubSeq(s, i + n, Len(s)), sep)

str_split(s, sep) ==
    LET n == Len(sep)
        hits == {i \in 1..(Len(s) - n + 1) : SubSeq(s, i, i + n - 1) = sep}
    IN  IF hits = {} THEN <<s>>
        ELSE LET i == Min(hits)
             IN  <<SubSeq(s, 1, i - 1)>> \o str_split(SubSeq(s, i + n, Len(s)), sep)

\* str.split(): cut at runs of whitespace; no empty pieces
RECURSIVE str_split_ws(_)
str_split_ws(s) ==
    LET keep == {i \in 1..Len(s) : s[i] \notin Whitespace}
    IN  IF keep = {} THEN <<>>
        ELSE LET b == Min(keep)
                 gaps == {i \in b..Len(s) : s[i] \in Whitespace}
                 e == IF gaps = {} THEN Len(s) + 1 ELSE Min(gaps)
             IN  <<SubSeq(s, b, e - 1)>> \o str_split_ws(SubSeq(s, e, Len(s)))

\* str.upper() on one character, then on a str
UpperChar(c) ==
    IF \E i \in 1..26 : Lower[i] = c
    THEN Upper[CHOOSE i \in 1..26 : Lower[i] = c]
    ELSE c

str_upper(s) == [i \in 1..Len(s) |-> UpperChar(s[i])]

\* sep.join(list)
RECURSIVE str_join(_, _)
str_join(sep, list) ==
    IF list = <<>> THEN <<>>
    ELSE IF Len(list) = 1 THEN list[1]
    ELSE list[1] \o sep \o str_join(sep, Tail(list))

\* x in list
In(x, list) == \E i \in 1..Len(list) : list[i] = x

\* list.index(x), counted from 1; called only when x is in the list
list_index(list, x) == Min({i \in 1..Len(list) : list[i] = x})

\* list[i], counted from 1
Item(list, i) == IF i \in 1..Len(list) THEN list[i] ELSE IndexError

(***************************************************************************)
(* Constants (lines 21-26).                                                *)
(***************************************************************************)
SQL_RESERVED_KEYWORDS ==
    { <<"S", "E", "L", "E", "C", "T">>,
      <<"F", "R", "O", "M">>,
      <<"W", "H", "E", "R", "E">>,
      <<"I", "N", "S", "E", "R", "T">>,
      <<"U", "P", "D", "A", "T", "E">>,
      <<"D", "E", "L", "E", "T", "E">>,
      <<"J", "O", "I", "N">>,
      <<"G", "R", "O", "U", "P">>,
      <<"O", "R", "D", "E", "R">>,
      <<"B", "Y">>,
      <<"H", "A", "V", "I", "N", "G">>,
      <<"I", "N">>,
      <<"I", "S">>,
      <<"N", "U", "L", "L">>,
      <<"A", "N", "D">>,
      <<"O", "R">>,
      <<"N", "O", "T">>,
      <<"L", "I", "K", "E">>,
      <<"B", "E", "T", "W", "E", "E", "N">>,
      <<"E", "X", "I", "S", "T", "S">>,
      <<"D", "I", "S", "T", "I", "N", "C", "T">>,
      <<"C", "A", "S", "E">>,
      <<"W", "H", "E", "N">>,
      <<"T", "H", "E", "N">>,
      <<"E", "L", "S", "E">>,
      <<"E", "N", "D">> }

(***************************************************************************)
(* The fixed texts of the messages generate_sql returns.                   *)
(***************************************************************************)
\* every message starts with it
MsgError ==
    <<"U+041E", "U+0448", "U+0438", "U+0431", "U+043A", "U+0430", ":", " ">>

\* line 60
MsgEmptyQuery ==
    <<"U+0417", "U+0430", "U+043F", "U+0440", "U+043E", "U+0441", " ",
      "U+043D", "U+0435", " ", "U+0434", "U+043E", "U+043B", "U+0436",
      "U+0435", "U+043D", " ", "U+0431", "U+044B", "U+0442", "U+044C", " ",
      "U+043F", "U+0443", "U+0441", "U+0442", "U+044B", "U+043C", ".">>

\* line 67, before the name
MsgTablePrefix ==
    <<"U+0418", "U+043C", "U+044F", " ", "U+0442", "U+0430", "U+0431",
      "U+043B", "U+0438", "U+0446", "U+044B", " ", "'">>

\* line 67, after the name
MsgTableSuffix ==
    <<"'", " ", "U+043D", "U+0435", "U+0434", "U+043E", "U+043F", "U+0443",
      "U+0441", "U+0442", "U+0438", "U+043C", "U+043E", " ", "U+0438",
      "U+043B", "U+0438", " ", "U+0437", "U+0430", "U+0440", "U+0435",
      "U+0437", "U+0435", "U+0440", "U+0432", "U+0438", "U+0440", "U+043E",
      "U+0432", "U+0430", "U+043D", "U+043E", ".">>

\* line 70, before the alias
MsgAliasPrefix ==
    <<"U+041F", "U+0441", "U+0435", "U+0432", "U+0434", "U+043E", "U+043D",
      "U+0438", "U+043C", " ", "'">>

\* line 70, after the alias
MsgAliasSuffix ==
    <<"'", " ", "U+043D", "U+0435", "U+0434", "U+043E", "U+043F", "U+0443",
      "U+0441", "U+0442", "U+0438", "U+043C", " ", "U+0438", "U+043B",
      "U+0438", " ", "U+0437", "U+0430", "U+0440", "U+0435", "U+0437",
      "U+0435", "U+0440", "U+0432", "U+0438", "U+0440", "U+043E", "U+0432",
      "U+0430", "U+043D", ".">>

\* line 73
MsgInvalidColumn ==
    <<"U+041E", "U+0434", "U+043D", "U+043E", " ", "U+0438", "U+0437", " ",
      "U+0438", "U+043C", "U+0435", "U+043D", " ", "U+0441", "U+0442",
      "U+043E", "U+043B", "U+0431", "U+0446", "U+043E", "U+0432", " ",
      "U+043D", "U+0435", "U+0434", "U+043E", "U+043F", "U+0443", "U+0441",
      "U+0442", "U+0438", "U+043C", "U+043E", " ", "U+0438", "U+043B",
      "U+0438", " ", "U+0437", "U+0430", "U+0440", "U+0435", "U+0437",
      "U+0435", "U+0440", "U+0432", "U+0438", "U+0440", "U+043E", "U+0432",
      "U+0430", "U+043D", "U+043E", ".">>

\* line 78
MsgMissingJoin ==
    <<"U+0412", "U+0441", "U+0435", " ", "U+0442", "U+0430", "U+0431",
      "U+043B", "U+0438", "U+0446", "U+044B", ",", " ", "U+043A", "U+0440",
      "U+043E", "U+043C", "U+0435", " ", "U+043F", "U+0435", "U+0440",
      "U+0432", "U+043E", "U+0439", ",", " ", "U+0434", "U+043E", "U+043B",
      "U+0436", "U+043D", "U+044B", " ", "U+0438", "U+043C", "U+0435",
      "U+0442", "U+044C", " ", "U+0443", "U+0441", "U+043B", "U+043E",
      "U+0432", "U+0438", "U+0435", " ", "U+0441", "U+043E", "U+0435",
      "U+0434", "U+0438", "U+043D", "U+0435", "U+043D", "U+0438", "U+044F",
      ".">>

(***************************************************************************)
(* is_valid_name (lines 21, 29-31).                                        *)
(***************************************************************************)
\* [a-zA-Z_][a-zA-Z0-9_]* against the whole of s
IdentifierShape(s) ==
    /\ Len(s) >= 1
    /\ s[1] \in Letter \cup {"_"}
    /\ \A i \in 2..Len(s) : s[i] \in Letter \cup Digit \cup {"_"}

\* re.match(VALID_NAME_REGEX, s) is not None.  Without re.MULTILINE, ^ is the
\* start of s and $ is the end of s or the place before a "\n" that ends s.
VALID_NAME_REGEX(s) ==
    \/ IdentifierShape(s)
    \/ /\ Len(s) >= 1
       /\ s[Len(s)] = "\n"
       /\ IdentifierShape(SubSeq(s, 1, Len(s) - 1))

is_valid_name(n) ==
    VALID_NAME_REGEX(n) /\ str_upper(n) \notin SQL_RESERVED_KEYWORDS

(***************************************************************************)
(* parse_table_line (lines 34-53).                                         *)
(***************************************************************************)
SEP == <<" ", ":", " ">>      \* " : "
SPACE == <<" ">>
DASH == <<"-">>
STAR == <<"*">>
NEWLINE == <<"\n">>

\* alias_follows with >= for >: the subscript after a final "-" is taken
alias_follows_off_by_one(table_name_parts, alias_index) ==
    Len(table_name_parts) >= alias_index

\* line 43: len(table_name_parts) > alias_index + 1, alias_index counted from 1 here
alias_follows(table_name_parts, alias_index) ==
    Len(table_name_parts) > alias_index

\* the dict of lines 48-53, and in raises whether a subscript was out of range
parse_table_line(line) ==
    LET table_info == str_split(str_strip(line), SEP)
        spec_segment == Item(table_info, 1)
        table_name_parts ==
            IF spec_segment = IndexError THEN <<>> ELSE str_split(spec_segment, SPACE)
        table_name == Item(table_name_parts, 1)
        alias ==
            IF In(DASH, table_name_parts)
            THEN LET alias_index == list_index(table_name_parts, DASH)
                 IN  IF alias_follows(table_name_parts, alias_index)
                     THEN Item(table_name_parts, alias_index + 1)
                     ELSE None
            ELSE None
        columns ==
            IF Len(table_info) > 1 /\ Truthy(table_info[2])
            THEN str_split_ws(table_info[2])
            ELSE <<STAR>>
        join_condition ==
            IF Len(table_info) > 2 THEN str_strip(table_info[3]) ELSE None
    IN  [ name |-> table_name,
          alias |-> alias,
          columns |-> columns,
          join_condition |-> join_condition,
          raises |-> IndexError \in {spec_segment, table_name, alias} ]

\* the four keys of the dict
Descriptor(p) ==
    [ name |-> p.name, alias |-> p.alias, columns |-> p.columns,
      join_condition |-> p.join_condition ]

(***************************************************************************)
(* generate_sql (lines 56-102).                                            *)
(***************************************************************************)
\* columns_valid with any() for all()
columns_valid_any(columns) ==
    \E k \in 1..Len(columns) : columns[k] # STAR /\ is_valid_name(columns[k])

\* line 72: all(is_valid_name(col) for col in table["columns"] if col != "*")
columns_valid(columns) ==
    \A k \in 1..Len(columns) : columns[k] # STAR => is_valid_name(columns[k])

\* validate with the column check moved before the alias check
validate_columns_first(table) ==
    IF ~is_valid_name(table.name) THEN "table"
    ELSE IF ~columns_valid(table.columns) THEN "column"
    ELSE IF Truthy(table.alias) /\ ~is_valid_name(table.alias) THEN "alias"
    ELSE "ok"

\* lines 66-73: the first check of the loop body that fails
validate(table) ==
    IF ~is_valid_name(table.name) THEN "table"
    ELSE IF Truthy(table.alias) /\ ~is_valid_name(table.alias) THEN "alias"
    ELSE IF ~columns_valid(table.columns) THEN "column"
    ELSE "ok"

\* missing_join with i > 1 for i > 0: the second table is exempt too
missing_join_from_third(ts) ==
    \E i \in 1..Len(ts) : i > 2 /\ ~Truthy(ts[i].join_condition)

\* line 77: any(i > 0 and not t["join_condition"] for i, t in enumerate(tables))
missing_join(ts) ==
    \E i \in 1..Len(ts) : i > 1 /\ ~Truthy(ts[i].join_condition)

kwSELECT == <<"S", "E", "L", "E", "C", "T">>
kwFROM == <<"F", "R", "O", "M", " ">>
kwJOIN == <<"\n", "J", "O", "I", "N", " ">>
kwAS == <<" ", "A", "S", " ">>
kwON == <<" ", "O", "N", " ">>

\* lines 87-89
from_clause(table) ==
    IF Truthy(table.alias)
    THEN kwFROM \o table.name \o kwAS \o table.alias
    ELSE kwFROM \o table.name

\* {value} in an f-string: str(value)
format_value(v) == IF v = None THEN <<"N", "o", "n", "e">> ELSE v

\* lines 92-93
join_clause(table) ==
    IF Truthy(table.alias)
    THEN kwJOIN \o table.name \o kwAS \o table.alias
             \o kwON \o format_value(table.join_condition)
    ELSE kwJOIN \o table.name \o kwON \o format_value(table.join_condition)

\* formatted_columns qualifying by the table name whatever the alias
formatted_columns_by_name(table) ==
    [k \in 1..Len(table.columns) |-> table.name \o <<".">> \o table.columns[k]]

\* lines 96-98
formatted_columns(table) ==
    LET qualifier == IF Truthy(table.alias) THEN table.alias ELSE table.name
    IN  [k \in 1..Len(table.columns) |-> qualifier \o <<".">> \o table.columns[k]]

\* lines 80-99: the loop over enumerate(tables), from the state after k tables;
\* the accumulators are select_columns, from_clause and join_clauses
RECURSIVE assemble_loop(_, _, _)
assemble_loop(ts, k, acc) ==
    IF k > Len(ts) THEN acc
    ELSE assemble_loop(ts, k + 1,
            [ select_columns |-> acc.select_columns \o formatted_columns(ts[k]),
              from_clause |-> IF k = 1 THEN from_clause(ts[k]) ELSE acc.from_clause,
              join_clauses |-> IF k = 1 THEN acc.join_clauses
                               ELSE Append(acc.join_clauses, join_clause(ts[k])) ])

\* line 101
sql_query(ts) ==
    LET acc == assemble_loop(ts, 1,
                   [select_columns |-> <<>>, from_clause |-> <<>>, join_clauses |-> <<>>])
    IN  kwSELECT \o SPACE \o str_join(<<",", " ">>, acc.select_columns) \o SPACE
            \o acc.from_clause \o str_join(<<>>, acc.join_clauses) \o <<";">>

\* the messages of lines 60, 67, 70, 73 and 78
ErrEmptyQuery == MsgError \o MsgEmptyQuery
ErrInvalidTableName(n) == MsgError \o MsgTablePrefix \o n \o MsgTableSuffix
\* ErrInvalidAlias without the {table['alias']} field
ErrInvalidAlias_unnamed(a) == MsgError \o MsgAliasPrefix \o MsgAliasSuffix

ErrInvalidAlias(a) == MsgError \o MsgAliasPrefix \o a \o MsgAliasSuffix
ErrInvalidColumn == MsgError \o MsgInvalidColumn
ErrMissingJoin == MsgError \o MsgMissingJoin

(***************************************************************************)
(* The explored inputs.                                                    *)
(***************************************************************************)
\* lines of a table-spec segment only: plain, two spaces before the alias, a
\* dangling "-", a reserved word, extra tokens and a second "-", empty, blank
SpecOnlyLines ==
    { <<"t">>,
      <<"c", "u", "s", "t", "o", "m", "e", "r", "s", " ", "-", " ", " ", "c">>,
      <<"t", " ", "-">>,
      <<"o", "r">>,
      <<"t", " ", "x", " ", "-", " ", "a", " ", "-", " ", "b">>,
      <<>>,
      <<" ">> }

\* with a column segment: a name and the wildcard, a valid name before an
\* invalid one, and an invalid alias together with an invalid column
ColumnLines ==
    { <<"t", " ", "-", " ", "a">> \o SEP \o <<"c", " ", "*">>,    \* "t - a : c *"
      <<"t", " ", "-", " ", "a">> \o SEP \o <<"c", " ", "1">>,    \* "t - a : c 1"
      <<"t", " ", "-", " ", "1">> \o SEP \o <<"1">> }             \* "t - 1 : 1"

\* with a third segment: a condition, an empty condition before a fourth
\* segment, an empty column segment, and a fourth segment
JoinLines ==
    { <<"u", " ", "-", " ", "b">> \o SEP \o <<"d">> \o SEP \o <<"j", "=", "k">>,
      <<"u", " ", "-", " ", "b">> \o SEP \o <<"d">> \o SEP \o SEP \o <<"k">>,
      <<"u", " ", "-", " ", "b">> \o SEP \o SEP \o <<"j", "=", "k">>,
      <<"u">> \o SEP \o <<"d">> \o SEP \o <<"j">> \o SEP \o <<"k">> }

\* "products : : ": the line ends in the separator
OtherLines ==
    { <<"p", "r", "o", "d", "u", "c", "t", "s">> \o SEP \o <<":", " ">> }

LineSet == SpecOnlyLines \cup ColumnLines \cup JoinLines \cup OtherLines

\* the queries of 1..MaxLines lines of LineSet
Queries ==
    UNION { { str_join(NEWLINE, ls) : ls \in [1..n -> LineSet] } : n \in 1..MaxLines }

\* the names handed to is_valid_name: both cases of the reserved word OR, a
\* digit, an underscore, a line break and a character outside the shape
NameAlphabet == {"o", "r", "O", "R", "1", "_", "\n", "-"}
Names == UNION { [1..n -> NameAlphabet] : n \in 0..MaxNameLen }

(***************************************************************************)
(* generate_sql as a state machine: one action per block of its body.      *)
(***************************************************************************)
Returned ==
    {"return_empty", "return_table", "return_alias", "return_column",
     "return_join", "return_sql"}

PcValues == {"split", "loop", "joins", "assemble", "raise", "call", "returned"}
                \cup Returned

Init ==
    /\ pc = "split"
    /\ query \in Queries
    /\ lines = <<>>
    /\ tables = <<>>
    /\ out = None
    /\ name = None
    /\ valid = FALSE

\* lines 58-62
SplitLines ==
    /\ pc = "split"
    /\ lines' = str_split(str_strip(query), NEWLINE)
    /\ IF lines' = <<>>
       THEN pc' = "return_empty" /\ out' = ErrEmptyQuery
       ELSE pc' = "loop" /\ out' = out
    /\ UNCHANGED <<query, tables, name, valid>>

\* lines 63-75: one pass of the loop body
ValidateLine ==
    /\ pc = "loop"
    /\ Len(tables) < Len(lines)
    /\ LET table == parse_table_line(lines[Len(tables) + 1])
           verdict == IF table.raises THEN "raise" ELSE validate(table)
       IN  CASE verdict = "raise" ->
                  pc' = "raise" /\ UNCHANGED <<out, tables>>
             [] verdict = "table" ->
                  /\ pc' = "return_table"
                  /\ out' = ErrInvalidTableName(table.name)
                  /\ UNCHANGED tables
             [] verdict = "alias" ->
                  /\ pc' = "return_alias"
                  /\ out' = ErrInvalidAlias(table.alias)
                  /\ UNCHANGED tables
             [] verdict = "column" ->
                  /\ pc' = "return_column"
                  /\ out' = ErrInvalidColumn
                  /\ UNCHANGED tables
             [] OTHER ->
                  /\ pc' = "loop"
                  /\ tables' = Append(tables, Descriptor(table))
                  /\ UNCHANGED out
    /\ UNCHANGED <<query, lines, name, valid>>

\* lines 77-78, once the loop is exhausted
CheckJoinConditions ==
    /\ pc = "loop"
    /\ Len(tables) = Len(lines)
    /\ IF missing_join(tables)
       THEN pc' = "return_join" /\ out' = ErrMissingJoin
       ELSE pc' = "assemble" /\ out' = out
    /\ UNCHANGED <<query, lines, tables, name, valid>>

\* lines 80-102
Assemble ==
    /\ pc = "assemble"
    /\ out' = sql_query(tables)
    /\ pc' = "return_sql"
    /\ UNCHANGED <<query, lines, tables, name, valid>>

Next == SplitLines \/ ValidateLine \/ CheckJoinConditions \/ Assemble

Spec == Init /\ [][Next]_vars

(***************************************************************************)
(* is_valid_name called on its own.                                        *)
(***************************************************************************)
InitName ==
    /\ pc = "call"
    /\ name \in Names
    /\ valid = FALSE
    /\ query = <<>>
    /\ lines = <<>>
    /\ tables = <<>>
    /\ out = None

\* line 31
CallIsValidName ==
    /\ pc = "call"
    /\ valid' = is_valid_name(name)
    /\ pc' = "returned"
    /\ UNCHANGED <<name, query, lines, tables, out>>

NextName == CallIsValidName

SpecName == InitName /\ [][NextName]_vars

TypeOK ==
    /\ pc \in PcValues
    /\ valid \in BOOLEAN
    /\ Len(tables) <= Len(lines)

(***************************************************************************)
(* Vocabulary of the properties.                                           *)
(***************************************************************************)
StartsWith(s, p) == Len(s) >= Len(p) /\ SubSeq(s, 1, Len(p)) = p
EndsWith(s, p) == Len(s) >= Len(p) /\ SubSeq(s, Len(s) - Len(p) + 1, Len(s)) = p
Contains(s, p) == \E i \in 0..(Len(s) - Len(p)) : SubSeq(s, i + 1, i + Len(p)) = p
Occurrences(s, p) ==
    Cardinality({i \in 0..(Len(s) - Len(p)) : SubSeq(s, i + 1, i + Len(p)) = p})

Finished == pc \in Returned

\* the descriptor and the " : " segments of the i-th line of the query
D(i) == parse_table_line(lines[i])
Segments(i) == str_split(str_strip(lines[i]), SEP)

AliasPresent(d) == d.alias # None /\ d.alias # <<>>
TableBad(d) == ~is_valid_name(d.name)
AliasBad(d) == AliasPresent(d) /\ ~is_valid_name(d.alias)
BadColumns(d) ==
    {k \in 1..Len(d.columns) : d.columns[k] # STAR /\ ~is_valid_name(d.columns[k])}
IdentifierViolation(d) == TableBad(d) \/ AliasBad(d) \/ BadColumns(d) # {}
BadLines == {i \in 1..Len(lines) : IdentifierViolation(D(i))}

\* the third segment of line i is absent or empty
LacksJoin(i) == Len(Segments(i)) < 3 \/ str_strip(Segments(i)[3]) = <<>>
\* the second segment of line i is absent or empty
LacksColumns(i) == Len(Segments(i)) < 2 \/ Segments(i)[2] = <<>>

Blank(s) == \A k \in 1..Len(s) : s[k] \in Whitespace

TxtSelect == <<"S", "E", "L", "E", "C", "T">>
TxtFrom == <<"F", "R", "O", "M">>
TxtJoin == <<"J", "O", "I", "N">>
TxtAs == <<"A", "S">>
TxtOn == <<"O", "N">>
TxtProducts == <<"p", "r", "o", "d", "u", "c", "t", "s">>

(***************************************************************************)
(* C1.                                                                     *)
(***************************************************************************)
IsErrorMessage(s) ==
    \/ s \in {ErrEmptyQuery, ErrInvalidColumn, ErrMissingJoin}
    \/ /\ StartsWith(s, MsgError \o MsgTablePrefix)
       /\ EndsWith(s, MsgTableSuffix)
       /\ Len(s) >= Len(MsgError) + Len(MsgTablePrefix) + Len(MsgTableSuffix)
    \/ /\ StartsWith(s, MsgError \o MsgAliasPrefix)
       /\ EndsWith(s, MsgAliasSuffix)
       /\ Len(s) >= Len(MsgError) + Len(MsgAliasPrefix) + Len(MsgAliasSuffix)

\* the guards of the four steps of generate_sql
CanStep ==
    \/ pc = "split"
    \/ pc = "loop" /\ Len(tables) < Len(lines)
    \/ pc = "loop" /\ Len(tables) = Len(lines)
    \/ pc = "assemble"

\* C1: generate_sql never raises (no subscript of parse_table_line or of the
\* loops is out of range); a call that has not returned can take its next
\* step, the loop having at most one pass per line; and what is returned is a
\* str: the statement built by the assembly step, or one of the five messages.
C1_NeverRaises ==
    /\ pc # "raise"
    /\ Finished \/ CanStep
    /\ Finished =>
          /\ out # None
          /\ IF pc = "return_sql"
             THEN StartsWith(out, TxtSelect \o SPACE)
             ELSE IsErrorMessage(out)

\* a query whose first line ends in a "-" with no token after it was parsed
\* and a statement returned
C1_Witness ==
    /\ pc = "return_sql"
    /\ Len(lines) >= 2
    /\ lines[1] = <<"t", " ", "-">>

(***************************************************************************)
(* C2.                                                                     *)
(***************************************************************************)
Offending(d) ==
    IF TableBad(d) THEN d.name
    ELSE IF AliasBad(d) THEN d.alias
    ELSE d.columns[Min(BadColumns(d))]

C3_Original ==
    (Finished /\ \E i \in 2..Len(lines) : LacksJoin(i)) => out = ErrMissingJoin

\* C3 amended: when every line passes the identifier checks and a line beyond
\* the first lacks a join condition, the one MissingJoinCondition message is
\* returned, however many lines lack it.
C3_MissingJoin ==
    (Finished /\ BadLines = {} /\ \E i \in 2..Len(lines) : LacksJoin(i)) =>
        pc = "return_join" /\ out = ErrMissingJoin

\* two lines beyond the first lack the condition, one message is returned
C3_Witness ==
    /\ pc = "return_join"
    /\ out = ErrMissingJoin
    /\ Len(lines) >= 3
    /\ LacksJoin(2)
    /\ LacksJoin(3)

(***************************************************************************)
(* C4.                                                                     *)
(***************************************************************************)
Qualifier(d) == IF AliasPresent(d) THEN d.alias ELSE d.name
TableRef(d) ==
    IF AliasPresent(d) THEN d.name \o SPACE \o TxtAs \o SPACE \o d.alias ELSE d.name

\* the qualified columns of lines k..n, each but the very first after ", "
RECURSIVE SelectList(_, _)
SelectList(k, c) ==
    IF k > Len(lines) THEN <<>>
    ELSE IF c > Len(D(k).columns) THEN SelectList(k + 1, 1)
    ELSE (IF k = 1 /\ c = 1 THEN <<>> ELSE <<",", " ">>)
            \o Qualifier(D(k)) \o <<".">> \o D(k).columns[c] \o SelectList(k, c + 1)

RECURSIVE JoinList(_)
JoinList(k) ==
    IF k > Len(lines) THEN <<>>
    ELSE NEWLINE \o TxtJoin \o SPACE \o TableRef(D(k)) \o SPACE \o TxtOn \o SPACE
            \o D(k).join_condition \o JoinList(k + 1)

ExpectedSql ==
    TxtSelect \o SPACE \o SelectList(1, 1) \o SPACE \o TxtFrom \o SPACE
        \o TableRef(D(1)) \o JoinList(2) \o <<";">>

PassesValidation ==
    /\ Len(lines) >= 1
    /\ BadLines = {}
    /\ \A i \in 2..Len(lines) : ~LacksJoin(i)

\* C4: for an input of n lines that passes all validation the result is exactly
\* SELECT <columns> FROM <first table><JOIN clauses>; so it begins with
\* "SELECT ", ends with ";" and has n-1 JOIN clauses, the first line's join
\* condition not among them.
C4_SqlShape ==
    (Finished /\ PassesValidation) =>
        /\ pc = "return_sql"
        /\ out = ExpectedSql
        /\ StartsWith(out, TxtSelect \o SPACE)
        /\ out[Len(out)] = ";"
        /\ Occurrences(out, NEWLINE \o TxtJoin \o SPACE) = Len(lines) - 1

\* three lines, a join condition on the first, an alias on the second and none
\* on the third
C4_Witness ==
    /\ pc = "return_sql"
    /\ Len(lines) = 3
    /\ ~LacksJoin(1)
    /\ AliasPresent(D(2))
    /\ ~AliasPresent(D(3))
    /\ Len(D(1).columns) + Len(D(2).columns) + Len(D(3).columns) >= 3

(***************************************************************************)
(* C5.                                                                     *)
(***************************************************************************)
\* C5: a line whose column segment is absent or empty has the columns ["*"]
\* and the statement lists <alias-or-name>.* for it; and the input
\* "products : : " gives "SELECT products.* FROM products;".
C5_WildcardDefault ==
    /\ \A i \in 1..Len(lines) :
          LacksColumns(i) =>
              /\ D(i).columns = <<STAR>>
              /\ pc = "return_sql" => Contains(out, Qualifier(D(i)) \o <<".", "*">>)
    /\ (Finished /\ query = TxtProducts \o SEP \o <<":", " ">>) =>
          out = TxtSelect \o SPACE \o TxtProducts \o <<".", "*">> \o SPACE
                    \o TxtFrom \o SPACE \o TxtProducts \o <<";">>

(***************************************************************************)
(* C6.                                                                     *)
(***************************************************************************)
EqualIgnoringCase(a, b) ==
    Len(a) = Len(b) /\ \A i \in 1..Len(a) : UpperChar(a[i]) = UpperChar(b[i])

\* C6: is_valid_name(name) is true exactly when the whole of name has the
\* identifier shape and name is, whatever its case, no reserved word.
C6_IsValidName ==
    pc = "returned" =>
        (valid <=> /\ IdentifierShape(name)
                   /\ ~\E kw \in SQL_RESERVED_KEYWORDS : EqualIgnoringCase(name, kw))

(***************************************************************************)
(* C7.                                                                     *)
(***************************************************************************)
\* C7: the EmptyQuery message is never returned; an empty or blank input is
\* split into the one line "" and answered with the InvalidTableName message
\* for the name "".
C7_EmptyQueryUnreachable ==
    /\ pc # "return_empty"
    /\ out # ErrEmptyQuery
    /\ (pc # "split" /\ Blank(query)) => lines = << <<>> >>
    /\ (Finished /\ Blank(query)) =>
          pc = "return_table" /\ out = ErrInvalidTableName(<<>>)

\* a blank input of several characters was answered
C7_Witness ==
    /\ pc = "return_table"
    /\ Blank(query)
    /\ Len(query) >= 2

(***************************************************************************)
(* C8.                                                                     *)
(***************************************************************************)
\* C8: the table-spec segment is split on whitespace; the name is the first
\* token and the alias the token after the first "-", None when there is no
\* "-" or nothing after it, whatever the spacing.
C8_AliasToken ==
    \A i \in 1..Len(tables) :
        LET tokens == str_split_ws(Segments(i)[1])
            dashes == {k \in 1..Len(tokens) : tokens[k] = DASH}
        IN  /\ tokens # <<>> => tables[i].name = tokens[1]
            /\ tables[i].alias = IF dashes # {} /\ Min(dashes) < Len(tokens)
                                 THEN tokens[Min(dashes) + 1]
                                 ELSE None

SqlLines == str_split(SubSeq(out, 1, Len(out) - 1), NEWLINE)

WithoutComma(tok) ==
    IF tok # <<>> /\ tok[Len(tok)] = "," THEN SubSeq(tok, 1, Len(tok) - 1) ELSE tok

SelectItemValid(item) ==
    LET parts == str_split(item, <<".">>)
    IN  /\ Len(parts) = 2
        /\ is_valid_name(parts[1])
        /\ parts[2] = STAR \/ is_valid_name(parts[2])

\* "SELECT q.c, ... FROM name" or "SELECT q.c, ... FROM name AS alias"
SelectLineValid(text) ==
    LET toks == str_split(text, SPACE)
        froms == {k \in 1..Len(toks) : toks[k] = TxtFrom}
    IN  /\ toks[1] = TxtSelect
        /\ froms # {}
        /\ LET f == Min(froms)
           IN  /\ f > 2
               /\ \A k \in 2..(f - 1) : SelectItemValid(WithoutComma(toks[k]))
               /\ Len(toks) \in {f + 1, f + 3}
               /\ is_valid_name(toks[f + 1])
               /\ Len(toks) = f + 3 => toks[f + 2] = TxtAs /\ is_valid_name(toks[f + 3])

\* "JOIN name ON ..." or "JOIN name AS alias ON ..."
JoinLineValid(text) ==
    LET toks == str_split(text, SPACE)
    IN  /\ Len(toks) >= 4
        /\ toks[1] = TxtJoin
        /\ is_valid_name(toks[2])
        /\ IF toks[3] = TxtAs
           THEN Len(toks) >= 6 /\ is_valid_name(toks[4]) /\ toks[5] = TxtOn
           ELSE toks[3] = TxtOn

\* C10: in every returned statement the table names after FROM and JOIN, the
\* aliases after AS and the qualifiers and non-wildcard columns of the SELECT
\* list satisfy is_valid_name; only the join conditions are unvalidated text.
C10_OutputIdentifiersValid ==
    pc = "return_sql" =>
        /\ SelectLineValid(SqlLines[1])
        /\ \A k \in 2..Len(SqlLines) : JoinLineValid(SqlLines[k])
        /\ Len(SqlLines) = Len(tables)

\* a statement of two tables whose first line has the empty alias that
\* validation skips
C10_Witness ==
    /\ pc = "return_sql"
    /\ Len(tables) >= 2
    /\ tables[1].alias = <<>>

=============================================================================
